---- MODULE Spec2Model ----
(***************************************************************************)
(* Subject-lock engine of the RNPathfinders API (src/server.js, API v3.0,  *)
(* lines 1428-2222): one ordinary user's row of the users table, the       *)
(* study_sessions and aar_entries rows of that user, the wall clock, and   *)
(* the HTTP requests in flight.                                            *)
(*                                                                         *)
(* A handler is a sequence of database statements separated by awaits.     *)
(* Every statement, with the JavaScript that runs on its result, is one    *)
(* operator from the database to an outcome.  Spec serves one request at a *)
(* time: an action is a whole handler.  SpecConc has several requests in   *)
(* flight: an action is one statement, and the statements of different     *)
(* requests interleave.                                                    *)
(***************************************************************************)
EXTENDS Integers, Sequences, FiniteSets, Bags, TLC

VARIABLES user, sessions, aars, now, reqs, resp, arrived, codes, accounts, mail

vars == <<user, sessions, aars, now, reqs, resp, arrived, codes, accounts, mail>>

----------------------------------------------------------------------------
(* Bounds of the model *)

\* requests in flight at once under SpecConc
MaxReqs == 2
\* requests that arrive in a run of SpecConc
MaxArrivals == 4
\* the clock stops after this many days
MaxDays == 7
\* rows of study_sessions
MaxSessions == 2
\* rows of aar_entries
MaxAars == 3
\* session_count stops growing here
MaxSessionCount == 5
\* aar_count stops growing here
MaxAarCount == 3
\* total_study_minutes stops growing here
MaxMinutes == 25
\* rows of users that registrations insert
MaxAccounts == 2

----------------------------------------------------------------------------
(* Time.  One unit of the clock is 30 seconds. *)

LockDays == 7

MsPerUnit == 30 * 1000
MsPerMinute == 60000
MsPerDay == 1000 * 60 * 60 * 24
Day == MsPerDay \div MsPerUnit

\* instants of the day of registration at which the model looks at the
\* clock: midnight, 4 min 30 s and 5 min after it
Offsets == {0, 9, 10}
\* the days on which it looks after that day: the day a lock taken then runs
\* out, and the days after
ObservedDays == LockDays .. MaxDays
Instants == Offsets \cup {d * Day : d \in ObservedDays}

NULL == -1

\* ids a request may carry: the catalog holds subject 1, and 2 is no subject
Catalog == {1}
SubjectInputs == {1, 2}

UserId == 1
\* ids of the :id parameter of the admin routes: the user, and no user
TargetIds == {1, 2}

MinDays == 7
MinSessions == 5
MinAars == 3
MinSessionMinutes == 5
MinWords == 20
PlannedDuration == 25

----------------------------------------------------------------------------
(* The database, a request in flight, and the outcome of a statement *)

DB == [user |-> user, sessions |-> sessions, aars |-> aars]

\* a request waiting on the statement pc; subjectId, sessionId and val are
\* the handler's local variables
Req(op, pc, subjectId, sessionId, val) ==
    [op |-> op, pc |-> pc, subjectId |-> subjectId, sessionId |-> sessionId, val |-> val]

Resp(op, status, info) == [op |-> op, status |-> status, info |-> info]
\* resp is the answer the last step sent, NoResp when it sent none
NoResp == Resp("none", 0, "")

\* the statement ran and the handler waits on the next one
Await(db, r) == [db |-> db, req |-> r, resp |-> NoResp, mail |-> "none"]
\* the handler answered
Answer(db, op, status, info) ==
    [db |-> db, req |-> Req(op, "done", NULL, NULL, NULL), resp |-> Resp(op, status, info),
     mail |-> "none"]

----------------------------------------------------------------------------
(* POST /api/declare-subject *)

\* The handler reads Date.now() for lock_expires_at and the database reads
\* CURRENT_TIMESTAMP for subject_locked_at: the delay between the two is far
\* below one unit of the clock, and no request in flight sees the clock move.

\* a lock that runs out after seven clock units instead of seven days
LockExpiresUnscaled(t) == t + LockDays

LockExpires(t) == t + LockDays * Day

DeclareSubjectCheck(subjectId, db, t) ==
    IF db.user.primarySubjectId # NULL
    THEN Answer(db, "declare", 400, "Subject already locked")
    ELSE Await(db, Req("declare", "update", subjectId, NULL, LockExpires(t)))

DeclareSubjectUpdate(r, db, t) ==
    Answer([db EXCEPT !.user.primarySubjectId = r.subjectId,
                      !.user.lockedAt = t,
                      !.user.lockExpiresAt = r.val,
                      !.user.onboardingComplete = TRUE],
           "declare", 200, "Subject locked for 7 days!")

----------------------------------------------------------------------------
(* POST /api/unlock-request *)

\* days counted to the nearest day
DaysPassedRounded(lockedAt, t) ==
    IF lockedAt = NULL THEN 0 ELSE (2 * (t - lockedAt) + Day) \div (2 * Day)

DaysPassed(lockedAt, t) == IF lockedAt = NULL THEN 0 ELSE (t - lockedAt) \div Day

\* requirements that ask for more than seven days
RequirementsMetAfter(daysPassed, nSessions, nAars) ==
    daysPassed > MinDays /\ nSessions >= MinSessions /\ nAars >= MinAars

RequirementsMet(daysPassed, nSessions, nAars) ==
    daysPassed >= MinDays /\ nSessions >= MinSessions /\ nAars >= MinAars

\* an unlock that leaves lock_expires_at behind
ClearLockKeepsExpiry(u) == [u EXCEPT !.primarySubjectId = NULL, !.lockedAt = NULL,
                                     !.onboardingComplete = FALSE,
                                     !.unlockRequested = FALSE]

\* the fields an unlock clears
ClearLock(u) == [u EXCEPT !.primarySubjectId = NULL, !.lockedAt = NULL,
                          !.lockExpiresAt = NULL, !.onboardingComplete = FALSE,
                          !.unlockRequested = FALSE]

\* a request that marks the user before it looks for a locked subject
UnlockRequestReadMarksFirst(db, t) ==
    IF db.user.primarySubjectId = NULL
    THEN Answer([db EXCEPT !.user.unlockRequested = TRUE], "unlock", 400, "No subject to unlock")
    ELSE Await(db, Req("unlock",
                       IF RequirementsMet(DaysPassed(db.user.lockedAt, t),
                                          db.user.sessionCount, db.user.aarCount)
                       THEN "auto" ELSE "request",
                       NULL, NULL, NULL))

UnlockRequestRead(db, t) ==
    IF db.user.primarySubjectId = NULL
    THEN Answer(db, "unlock", 400, "No subject to unlock")
    ELSE Await(db, Req("unlock",
                       IF RequirementsMet(DaysPassed(db.user.lockedAt, t),
                                          db.user.sessionCount, db.user.aarCount)
                       THEN "auto" ELSE "request",
                       NULL, NULL, NULL))

\* an automatic unlock that resets the counters, as an administrator's does
UnlockRequestAutoResets(r, db, t) ==
    Answer([db EXCEPT !.user = [ClearLock(@) EXCEPT !.aarCount = 0, !.sessionCount = 0]],
           "unlock", 200, "unlocked")

UnlockRequestAuto(r, db, t) ==
    Answer([db EXCEPT !.user = ClearLock(@)], "unlock", 200, "unlocked")

\* a request that keeps the stamp of the request already pending
UnlockRequestPendingOnce(r, db, t) ==
    Await([db EXCEPT !.user.unlockRequested = TRUE,
                     !.user.unlockRequestedAt =
                         IF db.user.unlockRequested THEN @ ELSE t],
          [r EXCEPT !.pc = "notify"])

UnlockRequestPending(r, db, t) ==
    Await([db EXCEPT !.user.unlockRequested = TRUE, !.user.unlockRequestedAt = t],
          [r EXCEPT !.pc = "notify"])

\* the administrators are read and mailed; sendEmail swallows its own errors
UnlockRequestNotify(r, db, t) ==
    Answer(db, "unlock", 200, "requested")

----------------------------------------------------------------------------
(* POST /api/admin/users/:id/approve-unlock, deny-unlock, unlock *)

\* an administrator's unlock that keeps the counters, as the user's own does
AdminClearKeepsCounters(u) == ClearLock(u)

\* the fields an administrator's unlock writes
AdminClear(u) == [ClearLock(u) EXCEPT !.aarCount = 0, !.sessionCount = 0]

\* an approval that asks for a pending request
ApproveUnlockReadPending(isAdmin, id, db, t) ==
    IF ~isAdmin THEN Answer(db, "approve", 403, "Admin required")
    ELSE IF id # UserId THEN Answer(db, "approve", 404, "User not found")
    ELSE IF ~db.user.unlockRequested THEN Answer(db, "approve", 400, "No pending request")
    ELSE Await(db, Req("approve", "update", NULL, NULL, NULL))

ApproveUnlockRead(isAdmin, id, db, t) ==
    IF ~isAdmin THEN Answer(db, "approve", 403, "Admin required")
    ELSE IF id # UserId THEN Answer(db, "approve", 404, "User not found")
    ELSE Await(db, Req("approve", "update", NULL, NULL, NULL))

\* an approval that also drops the sessions left open
ApproveUnlockUpdateDropsOpen(r, db, t) ==
    Answer([db EXCEPT !.user = AdminClear(@),
                      !.sessions = SelectSeq(@, LAMBDA x : x.isCompleted)],
           "approve", 200, "User unlocked and notified via email")

ApproveUnlockUpdate(r, db, t) ==
    Answer([db EXCEPT !.user = AdminClear(@)],
           "approve", 200, "User unlocked and notified via email")

DenyUnlockRead(isAdmin, id, db, t) ==
    IF ~isAdmin THEN Answer(db, "deny", 403, "Admin required")
    ELSE IF id # UserId THEN Answer(db, "deny", 404, "User not found")
    ELSE Await(db, Req("deny", "update", NULL, NULL, NULL))

\* a denial that also forgets when the request was made
DenyUnlockUpdateClearsStamp(r, db, t) ==
    Answer([db EXCEPT !.user.unlockRequested = FALSE, !.user.unlockRequestedAt = NULL],
           "deny", 200, "Request denied and user notified")

DenyUnlockUpdate(r, db, t) ==
    Answer([db EXCEPT !.user.unlockRequested = FALSE],
           "deny", 200, "Request denied and user notified")

\* a force unlock that writes before it looks at isAdmin
AdminUnlockThenCheck(isAdmin, id, db, t) ==
    Answer(IF id = UserId THEN [db EXCEPT !.user = AdminClear(@)] ELSE db,
           "force", IF isAdmin THEN 200 ELSE 403,
           IF isAdmin THEN "User unlocked successfully." ELSE "Admin required")

\* a force unlock that leaves a pending request standing
AdminUnlockKeepsRequest(isAdmin, id, db, t) ==
    IF ~isAdmin THEN Answer(db, "force", 403, "Admin required")
    ELSE Answer(IF id = UserId
                THEN [db EXCEPT !.user = [AdminClear(@) EXCEPT
                                            !.unlockRequested = db.user.unlockRequested]]
                ELSE db,
                "force", 200, "User unlocked successfully.")

\* one statement; no row of an unknown id changes
AdminUnlock(isAdmin, id, db, t) ==
    IF ~isAdmin THEN Answer(db, "force", 403, "Admin required")
    ELSE Answer(IF id = UserId
                THEN [db EXCEPT !.user.primarySubjectId = NULL,
                                !.user.lockedAt = NULL,
                                !.user.lockExpiresAt = NULL,
                                !.user.onboardingComplete = FALSE,
                                !.user.aarCount = 0,
                                !.user.sessionCount = 0,
                                !.user.unlockRequested = FALSE]
                ELSE db,
                "force", 200, "User unlocked successfully.")

----------------------------------------------------------------------------
(* GET /api/admin/unlock-requests: one row for every user whose              *)
(* unlock_requested is set                                                   *)

UnlockRequests(db, t) ==
    IF db.user.unlockRequested
    THEN << [id |-> UserId,
             session_count |-> db.user.sessionCount,
             aar_count |-> db.user.aarCount,
             unlock_requested_at |-> db.user.unlockRequestedAt,
             days_passed |-> DaysPassed(db.user.lockedAt, t),
             requirements_met |-> RequirementsMet(DaysPassed(db.user.lockedAt, t),
                                                  db.user.sessionCount,
                                                  db.user.aarCount)] >>
    ELSE << >>

----------------------------------------------------------------------------
(* POST /api/sessions/start *)

Session(subjectId, planned, t) ==
    [subjectId |-> subjectId, plannedDuration |-> planned, startedAt |-> t,
     isCompleted |-> FALSE, completedAt |-> NULL, actualDuration |-> NULL]

HasActiveSession(db) == \E i \in 1..Len(db.sessions) : ~db.sessions[i].isCompleted

StartSessionRead(planned, db, t) ==
    IF db.user.primarySubjectId = NULL
    THEN Answer(db, "start", 400, "No subject selected")
    ELSE Await(db, Req("start", "active", db.user.primarySubjectId, NULL, planned))

StartSessionActive(r, db, t) ==
    IF HasActiveSession(db)
    THEN Answer(db, "start", 400, "Session already active")
    ELSE Await(db, [r EXCEPT !.pc = "insert"])

\* study_sessions.subject_id references subjects(id): the insert of an id that
\* is no subject fails
StartSessionInsert(r, db, t) ==
    IF r.subjectId \in Catalog
    THEN Answer([db EXCEPT !.sessions = Append(@, Session(r.subjectId, r.val, t))],
                "start", 200, "Session started")
    ELSE Answer(db, "start", 500, "Failed")

----------------------------------------------------------------------------
(* POST /api/sessions/:id/complete *)

ActualMinutes(startedAt, t) == ((t - startedAt) * MsPerUnit) \div MsPerMinute

\* a handler that asks for the planned minutes
CompleteSessionReadPlanned(id, db, t) ==
    IF id > Len(db.sessions)
    THEN Answer(db, "complete", 404, "Session not found")
    ELSE LET actualMinutes == ActualMinutes(db.sessions[id].startedAt, t) IN
         IF actualMinutes < db.sessions[id].plannedDuration
         THEN Answer(db, "complete", 400, "Minimum 5 minutes required")
         ELSE Await(db, Req("complete", "session", NULL, id, actualMinutes))

CompleteSessionRead(id, db, t) ==
    IF id > Len(db.sessions)
    THEN Answer(db, "complete", 404, "Session not found")
    ELSE LET actualMinutes == ActualMinutes(db.sessions[id].startedAt, t) IN
         IF actualMinutes < MinSessionMinutes
         THEN Answer(db, "complete", 400, "Minimum 5 minutes required")
         ELSE Await(db, Req("complete", "session", NULL, id, actualMinutes))

CompleteSessionMark(r, db, t) ==
    Await([db EXCEPT !.sessions[r.sessionId] =
                        [@ EXCEPT !.isCompleted = TRUE, !.completedAt = t,
                                  !.actualDuration = r.val]],
          [r EXCEPT !.pc = "user"])

\* an update that assigns the minutes of this session instead of adding them
CompleteSessionCountAssigns(r, db, t) ==
    Answer([db EXCEPT !.user.sessionCount = @ + 1,
                      !.user.totalStudyMinutes = r.val],
           "complete", 200, "Session completed!")

CompleteSessionCount(r, db, t) ==
    Answer([db EXCEPT !.user.sessionCount = @ + 1,
                      !.user.totalStudyMinutes = @ + r.val],
           "complete", 200, "Session completed!")

----------------------------------------------------------------------------
(* POST /api/aar/submit *)

\* A text is a sequence of characters; Words(n) is n words of one letter with
\* one space between them.
Words(n) == [i \in 1..(IF n = 0 THEN 0 ELSE 2 * n - 1) |-> IF i % 2 = 1 THEN "w" ELSE " "]

\* text.split(/\s+/).filter(w => w).length: the number of maximal runs of
\* characters that are not white space
RECURSIVE CountWords(_, _)
CountWords(text, inWord) ==
    IF text = <<>> THEN 0
    ELSE IF Head(text) = " " THEN CountWords(Tail(text), FALSE)
    ELSE (IF inWord THEN 0 ELSE 1) + CountWords(Tail(text), TRUE)

WordCount(whatWorked, whatBlocked, tomorrowPlan) ==
    CountWords(whatWorked \o <<" ">> \o whatBlocked \o <<" ">> \o tomorrowPlan, FALSE)

\* the bodies a request may carry: an empty field, 19 words, 20 words in two
\* distributions, and 22 words
AarInputs == { <<Words(10), <<>>, Words(10)>>,
               <<Words(10), Words(8), Words(1)>>,
               <<Words(10), Words(8), Words(2)>>,
               <<Words(1), Words(1), Words(18)>>,
               <<Words(10), Words(8), Words(4)>> }

\* a handler that asks for a locked subject first
AarSubmitReadLocked(in, db, t) ==
    IF db.user.primarySubjectId = NULL
    THEN Answer(db, "aar", 400, "No subject selected")
    ELSE IF in[1] = <<>> \/ in[2] = <<>> \/ in[3] = <<>>
    THEN Answer(db, "aar", 400, "All fields required")
    ELSE IF WordCount(in[1], in[2], in[3]) < MinWords
    THEN Answer(db, "aar", 400, "Minimum 20 words required")
    ELSE Await(db, Req("aar", "insert", db.user.primarySubjectId, NULL, NULL))

AarSubmitRead(in, db, t) ==
    IF in[1] = <<>> \/ in[2] = <<>> \/ in[3] = <<>>
    THEN Answer(db, "aar", 400, "All fields required")
    ELSE IF WordCount(in[1], in[2], in[3]) < MinWords
    THEN Answer(db, "aar", 400, "Minimum 20 words required")
    ELSE Await(db, Req("aar", "insert", db.user.primarySubjectId, NULL, NULL))

\* aar_entries.subject_id references subjects(id); a null subject is stored
AarSubmitInsert(r, db, t) ==
    IF r.subjectId \in Catalog \cup {NULL}
    THEN Await([db EXCEPT !.aars = Append(@, r.subjectId)], [r EXCEPT !.pc = "user"])
    ELSE Answer(db, "aar", 500, "Failed")

AarSubmitCount(r, db, t) ==
    Answer([db EXCEPT !.user.aarCount = @ + 1], "aar", 200, "AAR submitted!")

----------------------------------------------------------------------------
(* API v2.0 (src/server.js, lines 1-1427): the handlers of the same routes   *)
(* as the earlier server wrote them.  Its requests carry the ops declareV2,  *)
(* startV2, completeV2 and aarV2.                                            *)

\* POST /api/declare-subject
DeclareSubjectV2Check(subjectId, db, t) ==
    IF db.user.primarySubjectId # NULL /\ db.user.onboardingComplete
    THEN Answer(db, "declareV2", 400, "You already have a primary subject declared")
    ELSE Await(db, Req("declareV2", "subject", subjectId, NULL, NULL))

\* SELECT * FROM subjects WHERE id = $1 AND is_active = TRUE; lockExpires is
\* the date seven days on
DeclareSubjectV2Subject(r, db, t) ==
    IF r.subjectId \notin Catalog
    THEN Answer(db, "declareV2", 404, "Subject not found")
    ELSE Await(db, [r EXCEPT !.pc = "update", !.val = t + LockDays * Day])

DeclareSubjectV2Update(r, db, t) ==
    Await([db EXCEPT !.user.primarySubjectId = r.subjectId,
                     !.user.lockedAt = t,
                     !.user.lockExpiresAt = r.val,
                     !.user.onboardingComplete = TRUE],
          [r EXCEPT !.pc = "history"])

\* INSERT INTO unlock_history: a table the model does not follow
DeclareSubjectV2History(r, db, t) ==
    Answer(db, "declareV2", 200, "Primary subject declared successfully")

\* POST /api/sessions/start: checkSubjectLock reads the user, the handler
\* works on that row
StartSessionV2Read(planned, db, t) ==
    IF db.user.primarySubjectId = NULL
    THEN Answer(db, "startV2", 400, "No primary subject declared")
    ELSE Await(db, Req("startV2", "active", db.user.primarySubjectId, NULL, planned))

StartSessionV2Active(r, db, t) ==
    IF HasActiveSession(db)
    THEN Answer(db, "startV2", 400, "You have an active session. Complete it first.")
    ELSE Await(db, [r EXCEPT !.pc = "insert"])

StartSessionV2Insert(r, db, t) ==
    IF r.subjectId \in Catalog
    THEN Await([db EXCEPT !.sessions = Append(@, Session(r.subjectId, r.val, t))],
               [r EXCEPT !.pc = "activity"])
    ELSE Answer(db, "startV2", 500, "Failed")

\* UPDATE users SET last_activity = NOW()
StartSessionV2Activity(r, db, t) ==
    Answer(db, "startV2", 200, "Session started")

\* POST /api/sessions/:id/complete
\* Math.round((endTime - startTime) / (1000 * 60)): halves round up
ActualDurationV2(startedAt, t) ==
    (2 * (t - startedAt) * MsPerUnit + MsPerMinute) \div (2 * MsPerMinute)

\* a handler that asks for more than five minutes
CompleteSessionV2ReadStrict(id, db, t) ==
    IF id > Len(db.sessions)
    THEN Answer(db, "completeV2", 404, "Session not found")
    ELSE IF db.sessions[id].isCompleted
    THEN Answer(db, "completeV2", 400, "Session already completed")
    ELSE LET actualDuration == ActualDurationV2(db.sessions[id].startedAt, t) IN
         IF actualDuration <= MinSessionMinutes
         THEN Answer(db, "completeV2", 400, "Session must be at least 5 minutes to count")
         ELSE Await(db, Req("completeV2", "session", NULL, id, actualDuration))

CompleteSessionV2Read(id, db, t) ==
    IF id > Len(db.sessions)
    THEN Answer(db, "completeV2", 404, "Session not found")
    ELSE IF db.sessions[id].isCompleted
    THEN Answer(db, "completeV2", 400, "Session already completed")
    ELSE LET actualDuration == ActualDurationV2(db.sessions[id].startedAt, t) IN
         IF actualDuration < MinSessionMinutes
         THEN Answer(db, "completeV2", 400, "Session must be at least 5 minutes to count")
         ELSE Await(db, Req("completeV2", "session", NULL, id, actualDuration))

CompleteSessionV2Mark(r, db, t) ==
    Await([db EXCEPT !.sessions[r.sessionId] =
                        [@ EXCEPT !.isCompleted = TRUE, !.completedAt = t,
                                  !.actualDuration = r.val]],
          [r EXCEPT !.pc = "user"])

CompleteSessionV2Count(r, db, t) ==
    Answer([db EXCEPT !.user.sessionCount = @ + 1,
                      !.user.totalStudyMinutes = @ + r.val],
           "completeV2", 200, "Session completed")

\* POST /api/aar/submit
\* text.split(/\s+/).length: one more than the number of maximal runs of
\* white space, whatever stands before the first and after the last
RECURSIVE CountPieces(_, _)
CountPieces(text, inSpace) ==
    IF text = <<>> THEN 1
    ELSE IF Head(text) = " " THEN (IF inSpace THEN 0 ELSE 1) + CountPieces(Tail(text), TRUE)
    ELSE CountPieces(Tail(text), FALSE)

\* (whatWorked + whatBlocked + tomorrowPlan): nothing between the fields
WordCountV2(whatWorked, whatBlocked, tomorrowPlan) ==
    CountPieces(whatWorked \o whatBlocked \o tomorrowPlan, FALSE)

AarSubmitV2Read(in, db, t) ==
    IF in[1] = <<>> \/ in[2] = <<>> \/ in[3] = <<>>
    THEN Answer(db, "aarV2", 400, "All AAR fields are required")
    ELSE IF WordCountV2(in[1], in[2], in[3]) < MinWords
    THEN Answer(db, "aarV2", 400, "AAR must be at least 20 words total. Reflect properly.")
    ELSE Await(db, Req("aarV2", "insert", db.user.primarySubjectId, NULL, NULL))

AarSubmitV2Insert(r, db, t) ==
    IF r.subjectId \in Catalog \cup {NULL}
    THEN Await([db EXCEPT !.aars = Append(@, r.subjectId)], [r EXCEPT !.pc = "user"])
    ELSE Answer(db, "aarV2", 500, "Failed")

AarSubmitV2Count(r, db, t) ==
    Answer([db EXCEPT !.user.aarCount = @ + 1], "aarV2", 200, "AAR submitted successfully")

----------------------------------------------------------------------------
(* Running a handler *)

\* the statement the request r waits on, and the code that runs on its result
Exec(r, db, t) ==
    CASE r.op = "declare"  /\ r.pc = "update"  -> DeclareSubjectUpdate(r, db, t)
      [] r.op = "unlock"   /\ r.pc = "auto"    -> UnlockRequestAuto(r, db, t)
      [] r.op = "unlock"   /\ r.pc = "request" -> UnlockRequestPending(r, db, t)
      [] r.op = "unlock"   /\ r.pc = "notify"  -> UnlockRequestNotify(r, db, t)
      [] r.op = "approve"  /\ r.pc = "update"  -> ApproveUnlockUpdate(r, db, t)
      [] r.op = "deny"     /\ r.pc = "update"  -> DenyUnlockUpdate(r, db, t)
      [] r.op = "start"    /\ r.pc = "active"  -> StartSessionActive(r, db, t)
      [] r.op = "start"    /\ r.pc = "insert"  -> StartSessionInsert(r, db, t)
      [] r.op = "complete" /\ r.pc = "session" -> CompleteSessionMark(r, db, t)
      [] r.op = "complete" /\ r.pc = "user"    -> CompleteSessionCount(r, db, t)
      [] r.op = "aar"      /\ r.pc = "insert"  -> AarSubmitInsert(r, db, t)
      [] r.op = "aar"      /\ r.pc = "user"    -> AarSubmitCount(r, db, t)
      [] r.op = "declareV2"  /\ r.pc = "subject"  -> DeclareSubjectV2Subject(r, db, t)
      [] r.op = "declareV2"  /\ r.pc = "update"   -> DeclareSubjectV2Update(r, db, t)
      [] r.op = "declareV2"  /\ r.pc = "history"  -> DeclareSubjectV2History(r, db, t)
      [] r.op = "startV2"    /\ r.pc = "active"   -> StartSessionV2Active(r, db, t)
      [] r.op = "startV2"    /\ r.pc = "insert"   -> StartSessionV2Insert(r, db, t)
      [] r.op = "startV2"    /\ r.pc = "activity" -> StartSessionV2Activity(r, db, t)
      [] r.op = "completeV2" /\ r.pc = "session"  -> CompleteSessionV2Mark(r, db, t)
      [] r.op = "completeV2" /\ r.pc = "user"     -> CompleteSessionV2Count(r, db, t)
      [] r.op = "aarV2"      /\ r.pc = "insert"   -> AarSubmitV2Insert(r, db, t)
      [] r.op = "aarV2"      /\ r.pc = "user"     -> AarSubmitV2Count(r, db, t)

\* the statement the handler waits on fails: its catch answers 500 and the
\* statements after it never run
Failed(o) == Answer(o.db, o.req.op, 500, "Failed")

\* a sendEmail that lets the error of the transport out
SendEmailRethrows(ok) ==
    [success |-> ok, threw |-> ~ok, log |-> IF ok THEN "sent" ELSE "failed"]

\* sendEmail: the transport delivers or not; the error is logged and
\* returned, never thrown
SendEmail(ok) ==
    [success |-> ok, threw |-> FALSE, log |-> IF ok THEN "sent" ELSE "failed"]

\* the statements followed by an await sendEmail(...) before the answer
SendsEmail(r) ==
    \/ r.op = "unlock" /\ r.pc = "notify"
    \/ r.op = "approve" /\ r.pc = "update"
    \/ r.op = "deny" /\ r.pc = "update"

\* the handler awaits sendEmail inside its try and ignores what it returns
Deliver(o, m) ==
    [(IF m.threw THEN Failed(o) ELSE o) EXCEPT !.mail = m.log]

\* the outcomes of the statement a request waits on
ExecAll(r, db, t) ==
    IF SendsEmail(r)
    THEN {Deliver(Exec(r, db, t), SendEmail(ok)) : ok \in BOOLEAN}
    ELSE {Exec(r, db, t)}

\* the ways a handler can end once its first statement has had the outcome o:
\* every statement runs, or one of them fails
RECURSIVE Finish(_, _)
Finish(o, t) ==
    IF o.req.pc = "done" THEN {o}
    ELSE {Failed(o)} \cup UNION {Finish(x, t) : x \in ExecAll(o.req, o.db, t)}

\* the model follows the tables and the counters up to its bounds
Within(db) ==
    /\ Len(db.sessions) <= MaxSessions
    /\ Len(db.aars) <= MaxAars
    /\ db.user.sessionCount <= MaxSessionCount
    /\ db.user.aarCount <= MaxAarCount
    /\ db.user.totalStudyMinutes <= MaxMinutes

Commit(o) ==
    /\ Within(o.db)
    /\ user' = o.db.user
    /\ sessions' = o.db.sessions
    /\ aars' = o.db.aars
    /\ resp' = o.resp
    /\ now' = now
    /\ mail' = o.mail
    /\ UNCHANGED <<codes, accounts>>

\* one request at a time: the whole handler, from the outcome of its first
\* statement
Serve(first) ==
    /\ resp = NoResp
    /\ \E o \in Finish(first, now) : Commit(o)
    /\ UNCHANGED <<reqs, arrived>>

\* several requests: the first statement runs as the request arrives
Arrive(first) ==
    /\ resp = NoResp
    /\ arrived < MaxArrivals
    /\ BagCardinality(reqs) < MaxReqs
    /\ Commit(first)
    /\ arrived' = arrived + 1
    /\ reqs' = IF first.req.pc = "done" THEN reqs ELSE reqs (+) SetToBag({first.req})

\* several requests: a request in flight runs the statement it waits on
Step(op) ==
    \E r \in BagToSet(reqs) :
        /\ resp = NoResp
        /\ r.op = op
        /\ \E o \in ExecAll(r, DB, now) :
             /\ Commit(o)
             /\ arrived' = arrived
             /\ reqs' = IF o.req.pc = "done"
                        THEN reqs (-) SetToBag({r})
                        ELSE (reqs (-) SetToBag({r})) (+) SetToBag({o.req})

----------------------------------------------------------------------------
(* The state after registration *)

Registered ==
    [user |-> [primarySubjectId |-> NULL, lockedAt |-> NULL, lockExpiresAt |-> NULL,
               onboardingComplete |-> FALSE, unlockRequested |-> FALSE,
               unlockRequestedAt |-> NULL,
               sessionCount |-> 0, aarCount |-> 0, totalStudyMinutes |-> 0],
     sessions |-> <<>>, aars |-> <<>>, now |-> 0]

StartAt(s) ==
    /\ user = s.user
    /\ sessions = s.sessions
    /\ aars = s.aars
    /\ now = s.now
    /\ reqs = EmptyBag
    /\ resp = NoResp
    /\ arrived = 0
    /\ codes = [used |-> TRUE, usedBy |-> UserId]
    /\ accounts = <<UserId>>
    /\ mail = "none"

Init == StartAt(Registered)

\* The clock advances to a later instant.  A request takes far less than one
\* unit of the clock: all its statements run at one reading of the clock.
Tick ==
    /\ resp = NoResp
    /\ reqs = EmptyBag
    /\ \E t \in Instants :
         /\ t > now
         /\ now' = t
    /\ resp' = NoResp
    /\ UNCHANGED <<user, sessions, aars, reqs, arrived, codes, accounts, mail>>

\* The answer of the last step reaches its client; until then the server
\* takes no other step.
Receive ==
    /\ resp # NoResp
    /\ resp' = NoResp
    /\ mail' = "none"
    /\ UNCHANGED <<user, sessions, aars, now, reqs, arrived, codes, accounts>>

----------------------------------------------------------------------------
(* One request at a time *)

DeclareSubject == \E subjectId \in SubjectInputs : Serve(DeclareSubjectCheck(subjectId, DB, now))

UnlockRequest == Serve(UnlockRequestRead(DB, now))

ApproveUnlock ==
    \E isAdmin \in BOOLEAN, id \in TargetIds : Serve(ApproveUnlockRead(isAdmin, id, DB, now))

DenyUnlock ==
    \E isAdmin \in BOOLEAN, id \in TargetIds : Serve(DenyUnlockRead(isAdmin, id, DB, now))

ForceUnlock ==
    \E isAdmin \in BOOLEAN, id \in TargetIds : Serve(AdminUnlock(isAdmin, id, DB, now))

StartSession == Serve(StartSessionRead(PlannedDuration, DB, now))

CompleteSession == \E id \in 1..MaxSessions : Serve(CompleteSessionRead(id, DB, now))

SubmitAar == \E in \in AarInputs : Serve(AarSubmitRead(in, DB, now))

Next ==
    \/ Tick
    \/ Receive
    \/ DeclareSubject
    \/ UnlockRequest
    \/ ApproveUnlock
    \/ DenyUnlock
    \/ ForceUnlock
    \/ StartSession
    \/ CompleteSession
    \/ SubmitAar

Spec == Init /\ [][Next]_vars

----------------------------------------------------------------------------
(* API v2.0, one request at a time *)

DeclareSubjectV2 ==
    \E subjectId \in SubjectInputs : Serve(DeclareSubjectV2Check(subjectId, DB, now))

StartSessionV2 == Serve(StartSessionV2Read(PlannedDuration, DB, now))

CompleteSessionV2 == \E id \in 1..MaxSessions : Serve(CompleteSessionV2Read(id, DB, now))

SubmitAarV2 == \E in \in AarInputs : Serve(AarSubmitV2Read(in, DB, now))

NextV2 ==
    \/ Tick
    \/ Receive
    \/ DeclareSubjectV2
    \/ StartSessionV2
    \/ CompleteSessionV2
    \/ SubmitAarV2

SpecV2 == Init /\ [][NextV2]_vars

----------------------------------------------------------------------------
(* Several requests in flight, at one reading of the clock.  The requests    *)
(* meet the user in one of three states that Spec reaches: just registered;  *)
(* locked since midnight with a session five minutes old; locked for seven   *)
(* days with five sessions and three reviews counted.                        *)

Locked(t) ==
    [Registered.user EXCEPT !.primarySubjectId = 1, !.lockedAt = t,
                            !.lockExpiresAt = LockExpires(t),
                            !.onboardingComplete = TRUE]

Studying ==
    [user |-> Locked(0),
     sessions |-> <<Session(1, PlannedDuration, 0)>>,
     aars |-> <<>>,
     now |-> 10]

Eligible ==
    [user |-> [Locked(0) EXCEPT !.sessionCount = MinSessions, !.aarCount = MinAars,
                                !.totalStudyMinutes = MinSessions * MinSessionMinutes],
     sessions |-> <<[Session(1, PlannedDuration, 0) EXCEPT
                        !.isCompleted = TRUE, !.completedAt = 10,
                        !.actualDuration = MinSessionMinutes]>>,
     aars |-> <<1, 1, 1>>,
     now |-> LockDays * Day]

ConcStarts == {Registered, Studying, Eligible}

InitConc == \E s \in ConcStarts : StartAt(s)

\* Spec reaches every state the requests of SpecConc start from
StartsReached(s) == DB = [user |-> s.user, sessions |-> s.sessions, aars |-> s.aars] /\ now = s.now
NotStudying == ~StartsReached(Studying)
NotEligible == ~StartsReached(Eligible)

DeclareSubjectArrive ==
    \E subjectId \in SubjectInputs : Arrive(DeclareSubjectCheck(subjectId, DB, now))
DeclareSubjectStep == Step("declare")

UnlockRequestArrive == Arrive(UnlockRequestRead(DB, now))
UnlockRequestStep == Step("unlock")

ApproveUnlockArrive ==
    \E isAdmin \in BOOLEAN, id \in TargetIds : Arrive(ApproveUnlockRead(isAdmin, id, DB, now))
ApproveUnlockStep == Step("approve")

DenyUnlockArrive ==
    \E isAdmin \in BOOLEAN, id \in TargetIds : Arrive(DenyUnlockRead(isAdmin, id, DB, now))
DenyUnlockStep == Step("deny")

ForceUnlockArrive ==
    \E isAdmin \in BOOLEAN, id \in TargetIds : Arrive(AdminUnlock(isAdmin, id, DB, now))

StartSessionArrive == Arrive(StartSessionRead(PlannedDuration, DB, now))
StartSessionStep == Step("start")

CompleteSessionArrive ==
    \E id \in 1..MaxSessions : Arrive(CompleteSessionRead(id, DB, now))
CompleteSessionStep == Step("complete")

SubmitAarArrive == \E in \in AarInputs : Arrive(AarSubmitRead(in, DB, now))
SubmitAarStep == Step("aar")

StoreFail ==
    \E r \in BagToSet(reqs) :
        /\ resp = NoResp
        /\ Commit(Failed(Await(DB, r)))
        /\ arrived' = arrived
        /\ reqs' = reqs (-) SetToBag({r})

NextConc ==
    \/ Receive
    \/ DeclareSubjectArrive
    \/ DeclareSubjectStep
    \/ UnlockRequestArrive
    \/ UnlockRequestStep
    \/ ApproveUnlockArrive
    \/ ApproveUnlockStep
    \/ DenyUnlockArrive
    \/ DenyUnlockStep
    \/ ForceUnlockArrive
    \/ StartSessionArrive
    \/ StartSessionStep
    \/ CompleteSessionArrive
    \/ CompleteSessionStep
    \/ SubmitAarArrive
    \/ SubmitAarStep
    \/ StoreFail

SpecConc == InitConc /\ [][NextConc]_vars

----------------------------------------------------------------------------
(* POST /api/auth/register.  codes is the access_codes row of the one code   *)
(* that was issued; accounts holds the email of every users row, in id       *)
(* order.  StartAt has the user of the engine registered with that code.     *)

\* codes a request may present: the issued one, and one that was never issued
CodeInputs == {1, 2}
IssuedCode == 1
\* emails a request may present
Emails == {1, 2}

RegReq(pc, email, userId) == [op |-> "register", pc |-> pc, email |-> email, userId |-> userId]

InitReg ==
    /\ user = Registered.user
    /\ sessions = <<>>
    /\ aars = <<>>
    /\ now = 0
    /\ reqs = EmptyBag
    /\ resp = NoResp
    /\ arrived = 0
    /\ codes = [used |-> FALSE, usedBy |-> NULL]
    /\ accounts = <<>>
    /\ mail = "none"

\* SELECT id,used FROM access_codes
RegisterArrive ==
    \E code \in CodeInputs, email \in Emails :
        /\ resp = NoResp
        /\ arrived < MaxArrivals
        /\ BagCardinality(reqs) < MaxReqs
        /\ arrived' = arrived + 1
        /\ IF code # IssuedCode
           THEN resp' = Resp("register", 400, "Invalid access code") /\ reqs' = reqs
           ELSE IF codes.used
           THEN resp' = Resp("register", 400, "Access code already used") /\ reqs' = reqs
           ELSE resp' = NoResp /\ reqs' = reqs (+) SetToBag({RegReq("exists", email, NULL)})
        /\ UNCHANGED <<user, sessions, aars, now, codes, accounts, mail>>

Replace(r, q) == (reqs (-) SetToBag({r})) (+) SetToBag({q})

\* SELECT id FROM users WHERE LOWER(email)=LOWER($1), then bcrypt.hash
RegisterExists(r) ==
    /\ IF \E i \in 1..Len(accounts) : accounts[i] = r.email
       THEN resp' = Resp("register", 400, "Email already registered")
            /\ reqs' = reqs (-) SetToBag({r})
       ELSE resp' = NoResp /\ reqs' = Replace(r, [r EXCEPT !.pc = "insert"])
    /\ UNCHANGED <<codes, accounts, mail>>

\* INSERT INTO users: email is UNIQUE
RegisterInsert(r) ==
    IF \E i \in 1..Len(accounts) : accounts[i] = r.email
    THEN /\ resp' = Resp("register", 500, "Registration failed")
         /\ reqs' = reqs (-) SetToBag({r})
         /\ UNCHANGED <<codes, accounts, mail>>
    ELSE /\ Len(accounts) < MaxAccounts
         /\ accounts' = Append(accounts, r.email)
         /\ resp' = NoResp
         /\ reqs' = Replace(r, [r EXCEPT !.pc = "mark", !.userId = Len(accounts) + 1])
         /\ UNCHANGED <<codes, mail>>

\* UPDATE access_codes SET used=TRUE,used_by=$1 WHERE id=$2
RegisterMark(r) ==
    /\ codes' = [used |-> TRUE, usedBy |-> r.userId]
    /\ resp' = NoResp
    /\ reqs' = Replace(r, [r EXCEPT !.pc = "welcome"])
    /\ UNCHANGED <<accounts, mail>>

\* the welcome email, sent or not
RegisterWelcome(r) ==
    /\ \E ok \in BOOLEAN :
          LET m == SendEmail(ok) IN
            /\ mail' = m.log
            /\ resp' = IF m.threw THEN Resp("register", 500, "Registration failed")
                       ELSE Resp("register", 200, "Registration successful")
    /\ reqs' = reqs (-) SetToBag({r})
    /\ UNCHANGED <<codes, accounts>>

RegisterStep ==
    \E r \in BagToSet(reqs) :
        /\ resp = NoResp
        /\ r.op = "register"
        /\ CASE r.pc = "exists"  -> RegisterExists(r)
             [] r.pc = "insert"  -> RegisterInsert(r)
             [] r.pc = "mark"    -> RegisterMark(r)
             [] r.pc = "welcome" -> RegisterWelcome(r)
        /\ UNCHANGED <<user, sessions, aars, now, arrived>>

\* a statement of a registration fails: its catch answers 500
RegisterFail ==
    \E r \in BagToSet(reqs) :
        /\ resp = NoResp
        /\ r.op = "register"
        /\ r.pc # "welcome"
        /\ resp' = Resp("register", 500, "Registration failed")
        /\ reqs' = reqs (-) SetToBag({r})
        /\ UNCHANGED <<user, sessions, aars, now, arrived, codes, accounts, mail>>

NextReg ==
    \/ Receive
    \/ RegisterArrive
    \/ RegisterStep
    \/ RegisterFail

SpecReg == InitReg /\ [][NextReg]_vars

----------------------------------------------------------------------------
(* A locked user who studies: starts a session, completes the session that   *)
(* is open, starts the next.  The clock runs through the first quarter of an *)
(* hour.                                                                     *)

\* the last instant of that clock
LiveHorizon == 30
LiveInstants == {0, 9, 10, 19, 20, LiveHorizon}

InitLive == StartAt([Registered EXCEPT !.user = Locked(0)])

TickLive ==
    /\ resp = NoResp
    /\ reqs = EmptyBag
    /\ \E t \in LiveInstants :
         /\ t > now
         /\ now' = t
    /\ resp' = NoResp
    /\ UNCHANGED <<user, sessions, aars, reqs, arrived, codes, accounts, mail>>

\* the user asks to complete the session that is open
CompleteOpenSession ==
    \E id \in 1..Len(sessions) :
        /\ ~sessions[id].isCompleted
        /\ Serve(CompleteSessionRead(id, DB, now))

NextLive ==
    \/ TickLive
    \/ Receive
    \/ StartSession
    \/ CompleteOpenSession

\* time passes whatever the server does, answers reach the client, and the
\* statements of a request that can succeed do not fail for ever
Fairness ==
    /\ SF_vars(TickLive)
    /\ WF_vars(Receive)
    /\ SF_vars(CompleteOpenSession /\ resp'.status = 200)

SpecLive == InitLive /\ [][NextLive]_vars /\ Fairness

----------------------------------------------------------------------------
(* GET /api/auth/me of API v2.0: lockStatus.  The view reads the users row   *)
(* and the clock; the states it is asked in are users locked at some instant *)
(* with any number of counted sessions and reviews behind them.              *)

\* Math.ceil(ms / one day), for a difference of either sign
CeilDays(d) == -((-d) \div Day)

Max0(n) == IF n > 0 THEN n ELSE 0

\* a view that counts the days left in whole days gone by
LockStatusV2Floor(u, t) ==
    IF u.primarySubjectId = NULL THEN <<>>
    ELSE LET lockExpires == u.lockExpiresAt
             daysRemaining == IF lockExpires # NULL THEN (lockExpires - t) \div Day ELSE 0
             canUnlock == /\ lockExpires # NULL /\ t >= lockExpires
                          /\ u.aarCount >= 3 /\ u.sessionCount >= 5
         IN  <<[isLocked |-> ~canUnlock,
                daysRemaining |-> Max0(daysRemaining),
                aarsNeeded |-> Max0(3 - u.aarCount),
                sessionsNeeded |-> Max0(5 - u.sessionCount)]>>

\* lockStatus: <<>> is null
LockStatusV2(u, t) ==
    IF u.primarySubjectId = NULL THEN <<>>
    ELSE LET lockExpires == u.lockExpiresAt
             daysRemaining == IF lockExpires # NULL THEN CeilDays(lockExpires - t) ELSE 0
             canUnlock == /\ lockExpires # NULL /\ t >= lockExpires
                          /\ u.aarCount >= 3 /\ u.sessionCount >= 5
         IN  <<[isLocked |-> ~canUnlock,
                daysRemaining |-> Max0(daysRemaining),
                aarsNeeded |-> Max0(3 - u.aarCount),
                sessionsNeeded |-> Max0(5 - u.sessionCount)]>>

GetMeV2 ==
    /\ resp = NoResp
    /\ resp' = Resp("meV2", 200, LockStatusV2(user, now))
    /\ UNCHANGED <<user, sessions, aars, now, reqs, arrived, codes, accounts, mail>>

\* the SELECT fails
GetMeV2Fail ==
    /\ resp = NoResp
    /\ resp' = Resp("meV2", 500, "Failed to fetch user")
    /\ UNCHANGED <<user, sessions, aars, now, reqs, arrived, codes, accounts, mail>>

\* instants the view is asked at: the first hour, one day on, and around the
\* end of the seven days
StatusInstants == {0, 10, 60, Day, 7 * Day - 1, 7 * Day, 7 * Day + 9, 7 * Day + 10, 8 * Day}
LockedAts == {0, 10}

\* a user locked at l, with n sessions of five minutes one after the other
\* and a reviews since, seen at t
StatusStart(l, n, a, t) ==
    [user |-> [Locked(l) EXCEPT !.sessionCount = n, !.aarCount = a,
                                !.totalStudyMinutes = n * MinSessionMinutes],
     sessions |-> [i \in 1..n |->
                      [Session(1, PlannedDuration, l + 10 * (i - 1)) EXCEPT
                          !.isCompleted = TRUE, !.completedAt = l + 10 * i,
                          !.actualDuration = MinSessionMinutes]],
     aars |-> [i \in 1..a |-> 1],
     now |-> t]

StatusStarts ==
    {Registered} \cup
    {StatusStart(q[1], q[2], q[3], q[4]) :
        q \in {q \in LockedAts \X (0..MaxSessionCount) \X (0..MaxAarCount) \X StatusInstants :
                  q[4] >= q[1] + 10 * q[2]}}

InitStatus == \E s \in StatusStarts : StartAt(s)

NextStatus ==
    \/ Receive
    \/ GetMeV2
    \/ GetMeV2Fail

SpecStatus == InitStatus /\ [][NextStatus]_vars

----------------------------------------------------------------------------
(* Properties *)

Unassigned(u) == u.primarySubjectId = NULL
Pending(u) == u.primarySubjectId # NULL /\ u.unlockRequested
LockedOnly(u) == u.primarySubjectId # NULL /\ ~u.unlockRequested

\* the eligibility of section 4.1, in clock units: seven whole days since the
\* lock, five sessions, three reviews
EligibleAt(u, t) ==
    /\ u.lockedAt # NULL
    /\ t - u.lockedAt >= 7 * Day
    /\ u.sessionCount >= 5
    /\ u.aarCount >= 3

Answered(op, status) == resp.op = op /\ resp.status = status
AnsweredNext(op, status) == resp'.op = op /\ resp'.status = status

\* C1: primarySubjectId, lockedAt and lockExpiresAt are null together or set
\* together, in every state, also after a handler stopped by a failed
\* statement between two of its writes.
LockFieldsAgree ==
    /\ (user.primarySubjectId # NULL) <=> (user.lockedAt # NULL)
    /\ (user.lockedAt # NULL) <=> (user.lockExpiresAt # NULL)

\* a locked user's completeSession marked the session and failed before it
\* counted it
LockedAfterFailure ==
    /\ Answered("complete", 500)
    /\ user.primarySubjectId # NULL
    /\ sessions # <<>> /\ sessions[1].isCompleted
    /\ user.sessionCount = 0

\* C2: a pending unlock request implies a locked subject, in every state.
PendingImpliesLocked == user.unlockRequested => user.primarySubjectId # NULL

\* C3: a declareSubject succeeds only for a user with no subject: of two
\* concurrent requests the second is rejected, and never overwrites the
\* subject the first one set.
DeclareOnlyWhenUnassigned ==
    [][AnsweredNext("declare", 200) => user.primarySubjectId = NULL]_vars

\* C4: a user has at most one study session that is not completed.
AtMostOneActiveSession ==
    Cardinality({i \in 1..Len(sessions) : ~sessions[i].isCompleted}) <= 1

\* C5: once the concurrent requests of the user and the administrator have
\* all been answered, the state is one that some order of whole transitions
\* produces: no unlock request is pending on a cleared lock.
QuiescentConsistent ==
    (reqs = EmptyBag /\ user.unlockRequested) => ~Unassigned(user)

\* C6: requestUnlock answers unlocked exactly when seven whole days have
\* passed since lockedAt and sessionCount >= 5 and aarCount >= 3.
UnlockIffEligible ==
    [][AnsweredNext("unlock", 200) =>
          ((resp'.info = "unlocked") <=> EligibleAt(user, now))]_vars

\* unlocked on the boundary: exactly 7 days, 5 sessions, 3 reviews
UnlockedOnBoundary ==
    /\ Answered("unlock", 200) /\ resp.info = "unlocked"
    /\ now = 7 * Day
    /\ user.sessionCount = 5
    /\ user.aarCount = 3

\* C7: the lock state of a user changes only from unassigned to locked by
\* declareSubject, from locked to pending by an ineligible requestUnlock, from
\* locked or pending to unassigned by an eligible requestUnlock or an
\* administrator's approve or force unlock, and from pending to locked by
\* adminDenyUnlock; a set primarySubjectId is never replaced by another.
UnlockRequestActs ==
    \/ resp'.op = "unlock"
    \/ \E r \in BagToSet(reqs') : r.op = "unlock" /\ r.pc = "notify"

LockTransitions ==
    [][/\ (Unassigned(user) /\ ~Unassigned(user')) =>
             (LockedOnly(user') /\ ~user.unlockRequested /\ AnsweredNext("declare", 200))
       /\ (LockedOnly(user) /\ Pending(user')) =>
             (UnlockRequestActs /\ ~EligibleAt(user, now))
       /\ (~Unassigned(user) /\ Unassigned(user')) =>
             /\ ~user'.unlockRequested
             /\ \/ resp'.op = "unlock" /\ EligibleAt(user, now)
                \/ resp'.op \in {"approve", "force"}
       /\ (Pending(user) /\ LockedOnly(user')) => AnsweredNext("deny", 200)
       /\ (~Unassigned(user) /\ ~Unassigned(user')) =>
             user'.primarySubjectId = user.primarySubjectId
       /\ (Unassigned(user) /\ Unassigned(user')) =>
             user'.unlockRequested = user.unlockRequested
      ]_vars

\* C8: an eligible requestUnlock clears primarySubjectId, lockedAt and
\* lockExpiresAt, resets onboardingComplete and unlockRequested, and leaves
\* sessionCount, aarCount and totalStudyMinutes as they were.
AutoUnlockEffect ==
    [][(AnsweredNext("unlock", 200) /\ resp'.info = "unlocked") =>
          /\ user'.primarySubjectId = NULL
          /\ user'.lockedAt = NULL
          /\ user'.lockExpiresAt = NULL
          /\ user'.onboardingComplete = FALSE
          /\ user'.unlockRequested = FALSE
          /\ user'.sessionCount = user.sessionCount
          /\ user'.aarCount = user.aarCount
          /\ user'.totalStudyMinutes = user.totalStudyMinutes
          /\ user'.unlockRequestedAt = user.unlockRequestedAt
          /\ sessions' = sessions /\ aars' = aars]_vars

\* the user was unlocked by their own request and kept their counters
AutoUnlockedKeepsCounters ==
    /\ Answered("unlock", 200) /\ resp.info = "unlocked"
    /\ Unassigned(user)
    /\ user.sessionCount >= 5 /\ user.aarCount >= 3 /\ user.totalStudyMinutes >= 25

\* C9: an ineligible requestUnlock sets unlockRequested and stamps
\* unlockRequestedAt with the time of the request, and changes no other field,
\* also when a request was already pending; the administrators' list holds
\* the user once.
PendingRequestEffect ==
    [][(AnsweredNext("unlock", 200) /\ resp'.info = "requested") =>
          /\ ~EligibleAt(user, now)
          /\ user' = [user EXCEPT !.unlockRequested = TRUE, !.unlockRequestedAt = now]
          /\ sessions' = sessions /\ aars' = aars
          /\ Len(UnlockRequests([user |-> user', sessions |-> sessions', aars |-> aars'],
                                now')) = 1]_vars

\* a request is pending, stamped at the present instant, later than the lock
RequestRefreshed ==
    /\ Answered("unlock", 200) /\ resp.info = "requested"
    /\ Pending(user)
    /\ user.unlockRequestedAt = now
    /\ now > user.lockedAt

\* C10: a successful declareSubject(subjectId) sets primarySubjectId to
\* subjectId, lockedAt to now, lockExpiresAt to now + 7 days and
\* onboardingComplete, and changes nothing else.
DeclareEffect ==
    [][\A r \in BagToSet(reqs) :
          (r.op = "declare" /\ AnsweredNext("declare", 200)
             /\ reqs' = reqs (-) SetToBag({r})) =>
               /\ user' = [user EXCEPT !.primarySubjectId = r.subjectId,
                                       !.lockedAt = now,
                                       !.lockExpiresAt = now + 7 * Day,
                                       !.onboardingComplete = TRUE]
               /\ sessions' = sessions /\ aars' = aars]_vars

\* a user with counted sessions and reviews has just declared a subject
DeclaredWithCounters ==
    /\ Answered("declare", 200)
    /\ user.primarySubjectId \in SubjectInputs
    /\ user.lockedAt = now /\ user.lockExpiresAt = now + 7 * Day
    /\ user.onboardingComplete
    /\ user.sessionCount > 0 /\ user.aarCount > 0

\* C11: a subject that is no active subject of the catalog is never declared:
\* the request is rejected and the user keeps no subject.
DeclaredSubjectInCatalog ==
    user.primarySubjectId # NULL => user.primarySubjectId \in Catalog

Unchanged == user' = user /\ sessions' = sessions /\ aars' = aars

\* C12: declareSubject by a locked user, requestUnlock and startSession by an
\* unassigned user, and startSession with a session open are rejected, each
\* with its own error, and the rejection changes no field of the user and no
\* session.
PreconditionViolations ==
    [][/\ (resp'.status = 400 /\ resp'.info \in {"Subject already locked",
                                                  "No subject to unlock",
                                                  "No subject selected",
                                                  "Session already active"}) => Unchanged
       /\ resp'.op = "declare" =>
             (~Unassigned(user) <=> (resp'.status = 400 /\ resp'.info = "Subject already locked"))
       /\ resp'.op = "unlock" =>
             (Unassigned(user) <=> (resp'.status = 400 /\ resp'.info = "No subject to unlock"))
       /\ resp'.op = "start" =>
             /\ Unassigned(user) <=> (resp'.status = 400 /\ resp'.info = "No subject selected")
             /\ resp'.status = 200 => ~HasActiveSession(DB)
             /\ (resp'.status = 400 /\ resp'.info = "Session already active")
                   => HasActiveSession(DB)
      ]_vars

\* a start was refused because a session is open, and it is still the only one
StartRefusedWhileActive ==
    /\ Answered("start", 400) /\ resp.info = "Session already active"
    /\ Len(sessions) = 1 /\ ~sessions[1].isCompleted

\* C13: an administrator's approval of a locked user succeeds whatever the
\* days, sessions and reviews are, and clears primarySubjectId, lockedAt,
\* lockExpiresAt, onboardingComplete and unlockRequested and sets sessionCount
\* and aarCount to 0.
ApproveEffect ==
    [][/\ AnsweredNext("approve", 200) =>
             /\ user' = [user EXCEPT !.primarySubjectId = NULL, !.lockedAt = NULL,
                                     !.lockExpiresAt = NULL,
                                     !.onboardingComplete = FALSE,
                                     !.unlockRequested = FALSE,
                                     !.sessionCount = 0, !.aarCount = 0]
             /\ sessions' = sessions /\ aars' = aars
       /\ resp'.op = "approve" => resp'.status \in {200, 403, 404, 500}
       /\ ~Unassigned(user) =>
             \E o \in Finish(ApproveUnlockRead(TRUE, UserId, DB, now), now) :
                 o.resp.status = 200
      ]_vars

\* approved before the seventh day, with studied minutes and no counted session
ApprovedMidCooldown ==
    /\ Answered("approve", 200)
    /\ now < 7 * Day
    /\ Unassigned(user)
    /\ user.sessionCount = 0 /\ user.totalStudyMinutes > 0

\* C14: adminDenyUnlock sets unlockRequested to false and changes nothing
\* else, so a second denial leaves the state of the first.
DenyEffect ==
    [][AnsweredNext("deny", 200) =>
          /\ user' = [user EXCEPT !.unlockRequested = FALSE]
          /\ sessions' = sessions /\ aars' = aars]_vars

\* a request that was made has been denied and the user is locked as before
DeniedStillLocked ==
    /\ Answered("deny", 200)
    /\ LockedOnly(user)
    /\ user.unlockRequestedAt # NULL

\* C15: in every state adminForceUnlock leaves the user as adminApproveUnlock
\* would, and succeeds with or without a pending request.
ForceUnlockAsApprove ==
    /\ AdminUnlock(TRUE, UserId, DB, now).resp.status = 200
    /\ ApproveUnlockRead(TRUE, UserId, DB, now).req.pc = "update"
    /\ AdminUnlock(TRUE, UserId, DB, now).db =
           ApproveUnlockUpdate(ApproveUnlockRead(TRUE, UserId, DB, now).req, DB, now).db

\* a user who never asked has been unlocked by force, their counters reset
ForcedWithoutRequest ==
    /\ Answered("force", 200)
    /\ Unassigned(user)
    /\ user.unlockRequestedAt = NULL
    /\ user.sessionCount = 0 /\ user.totalStudyMinutes > 0

\* C16: approve, deny and force unlock by a caller who is no administrator
\* answer 403 at once, with no statement run and the state as it was.
NonAdminRejected ==
    \A id \in TargetIds :
        /\ ApproveUnlockRead(FALSE, id, DB, now) = Answer(DB, "approve", 403, "Admin required")
        /\ DenyUnlockRead(FALSE, id, DB, now) = Answer(DB, "deny", 403, "Admin required")
        /\ AdminUnlock(FALSE, id, DB, now) = Answer(DB, "force", 403, "Admin required")

\* a force unlock was refused and the user's request is still pending
ForceRefusedStillPending ==
    /\ Answered("force", 403)
    /\ Pending(user)

\* C17: completeSession succeeds only on a session that was not completed.
CompleteOnlyOpenSession ==
    [][AnsweredNext("complete", 200) =>
          \E i \in 1..Len(sessions) :
              ~sessions[i].isCompleted /\ sessions'[i].isCompleted]_vars

\* C18: a completeSession whose actualDuration is under 5 minutes is
\* rejected and changes nothing, the session staying open; one of exactly 5
\* minutes is accepted.
OpenSessions == {i \in 1..Len(sessions) : ~sessions[i].isCompleted}

TooShortRejected ==
    [][/\ (AnsweredNext("completeV2", 400)
             /\ resp'.info = "Session must be at least 5 minutes to count") =>
             /\ Unchanged
             /\ \E i \in OpenSessions :
                   /\ ActualDurationV2(sessions[i].startedAt, now) < 5
                   /\ sessions'[i].completedAt = NULL
                   /\ sessions'[i].actualDuration = NULL
       /\ AnsweredNext("completeV2", 200) =>
             \E i \in OpenSessions :
                 /\ sessions'[i].isCompleted
                 /\ sessions'[i].actualDuration >= 5
       /\ \A i \in OpenSessions :
             ActualDurationV2(sessions[i].startedAt, now) >= 5 =>
                 \E o \in Finish(CompleteSessionV2Read(i, DB, now), now) :
                     o.resp.status = 200
      ]_vars

\* a session of exactly five minutes has been completed and counted
FiveMinutesAccepted ==
    /\ Answered("completeV2", 200)
    /\ \E i \in 1..Len(sessions) :
           sessions[i].isCompleted /\ sessions[i].actualDuration = 5
    /\ user.sessionCount = 1 /\ user.totalStudyMinutes = 5

\* the words of a text: the places where a character that is no white space
\* starts the text or follows white space
WordsOf(text) ==
    Cardinality({i \in 1..Len(text) :
                    text[i] # " " /\ (i = 1 \/ text[i - 1] = " ")})

Acceptable(in) ==
    /\ in[1] # <<>> /\ in[2] # <<>> /\ in[3] # <<>>
    /\ WordsOf(in[1]) + WordsOf(in[2]) + WordsOf(in[3]) >= 20

\* C19: submitAar is accepted exactly when the three fields are non-empty
\* and hold at least 20 words together, however the words are spread over
\* the fields (the handler of API v2.0).
AarAcceptedIffTwentyWordsV2 ==
    \A in \in AarInputs :
        (AarSubmitV2Read(in, DB, now).req.pc = "insert") <=> Acceptable(in)

\* the same of the handler of API v3.0
AarAcceptedIffTwentyWords ==
    \A in \in AarInputs :
        (AarSubmitRead(in, DB, now).req.pc = "insert") <=> Acceptable(in)

\* C20: with requests in flight together, every completeSession that
\* succeeds adds one to sessionCount and its minutes to totalStudyMinutes,
\* every submitAar that succeeds adds one to aarCount, and but for an
\* administrator's reset no other step changes a counter.
CountersNeverLost ==
    [][/\ AnsweredNext("complete", 200) =>
             /\ user'.sessionCount = user.sessionCount + 1
             /\ user'.aarCount = user.aarCount
             /\ \E r \in BagToSet(reqs) :
                   /\ r.op = "complete" /\ r.pc = "user"
                   /\ user'.totalStudyMinutes = user.totalStudyMinutes + r.val
       /\ AnsweredNext("aar", 200) =>
             /\ user'.aarCount = user.aarCount + 1
             /\ user'.sessionCount = user.sessionCount
             /\ user'.totalStudyMinutes = user.totalStudyMinutes
       /\ ~(\/ AnsweredNext("complete", 200)
            \/ AnsweredNext("aar", 200)
            \/ AnsweredNext("approve", 200)
            \/ AnsweredNext("force", 200)) =>
             /\ user'.sessionCount = user.sessionCount
             /\ user'.aarCount = user.aarCount
             /\ user'.totalStudyMinutes = user.totalStudyMinutes
      ]_vars

\* a session was counted while a review stood between its insert and its
\* count, and another review had been counted
CountedWhileReviewInFlight ==
    /\ Answered("complete", 200)
    /\ \E r \in BagToSet(reqs) : r.op = "aar" /\ r.pc = "user"
    /\ user.sessionCount = 1 /\ user.aarCount = 1

\* C21: an access code marked used stays the code of the registration that
\* marked it: no second registration presents it with success.
CodeUsedOnce ==
    [][(codes.used /\ codes'.used) => codes'.usedBy = codes.usedBy]_vars

\* C22: a completed session stores the minutes from startedAt to its
\* completion rounded to the nearest minute, and a completeSession is not
\* refused as too short when those rounded minutes are five or more: four
\* minutes and thirty seconds count as five and are accepted.
CompleteStoresRoundedMinutes ==
    /\ \A i \in 1..Len(sessions) :
           sessions[i].isCompleted =>
               sessions[i].actualDuration =
                   ActualDurationV2(sessions[i].startedAt, sessions[i].completedAt)
    /\ ~(/\ Answered("complete", 400)
         /\ resp.info = "Minimum 5 minutes required"
         /\ \E i \in OpenSessions :
                ActualDurationV2(sessions[i].startedAt, now) >= MinSessionMinutes)

\* C23: for a locked user the status view answers isLocked = not (the lock
\* has run out and three reviews and five sessions are counted), the whole
\* days still to go, rounded up and never below zero, and the reviews and
\* sessions still missing, never below zero; it changes no stored field.
LockStatusView ==
    [][(AnsweredNext("meV2", 200) /\ user.primarySubjectId # NULL) =>
          /\ Len(resp'.info) = 1
          /\ LET v == resp'.info[1]
                 left == user.lockExpiresAt - now
             IN  /\ v.isLocked = ~(now >= user.lockExpiresAt /\ user.aarCount >= 3
                                     /\ user.sessionCount >= 5)
                 /\ v.daysRemaining >= 0
                 /\ v.daysRemaining * Day >= left
                 /\ (v.daysRemaining > 0 => (v.daysRemaining - 1) * Day < left)
                 /\ v.aarsNeeded >= 0 /\ v.aarsNeeded >= 3 - user.aarCount
                 /\ v.aarsNeeded \in {0, 3 - user.aarCount}
                 /\ v.sessionsNeeded >= 0 /\ v.sessionsNeeded >= 5 - user.sessionCount
                 /\ v.sessionsNeeded \in {0, 5 - user.sessionCount}
          /\ Unchanged]_vars

\* the view of a user one unit short of the seven days, one review short
StatusOnLastDay ==
    /\ Answered("meV2", 200)
    /\ user.primarySubjectId # NULL
    /\ now = user.lockExpiresAt - 1
    /\ resp.info = <<[isLocked |-> TRUE, daysRemaining |-> 1,
                      aarsNeeded |-> 1, sessionsNeeded |-> 0]>>

\* C26: for a locked user whose lock runs out seven days after lockedAt, as
\* declareSubject sets it, the status view answers isLocked = false exactly
\* when requestUnlock at the same instant takes the automatic unlock.
ViewAgreesWithUnlock ==
    [][(/\ AnsweredNext("meV2", 200)
        /\ user.primarySubjectId # NULL
        /\ user.lockExpiresAt = LockExpires(user.lockedAt)) =>
          ((resp'.info[1].isLocked = FALSE) <=>
              (UnlockRequestRead(DB, now).req.pc = "auto"))]_vars

\* at the very instant the lock runs out, with the counters met, the view
\* reports unlocked and requestUnlock would unlock
UnlockedInViewAndAction ==
    /\ Answered("meV2", 200)
    /\ user.primarySubjectId # NULL
    /\ now = user.lockExpiresAt
    /\ resp.info[1].isLocked = FALSE
    /\ UnlockRequestRead(DB, now).req.pc = "auto"

\* C24: when the email of requestUnlock (the request path), of
\* adminApproveUnlock or of adminDenyUnlock cannot be sent, the operation
\* still answers success and what it wrote stays: the step that fails to
\* send undoes nothing of the pending request, the approval or the denial.
NotificationFailureHarmless ==
    [][mail' = "failed" =>
          /\ resp'.status = 200
          /\ resp'.op \in {"unlock", "approve", "deny"}
          /\ resp'.op = "unlock" => (resp'.info = "requested" /\ Unchanged)
          /\ resp'.op = "approve" => (user' = AdminClear(user)
                                       /\ sessions' = sessions /\ aars' = aars)
          /\ resp'.op = "deny" => (user' = [user EXCEPT !.unlockRequested = FALSE]
                                    /\ sessions' = sessions /\ aars' = aars)]_vars

\* the administrators could not be mailed, and the request is pending and
\* answered with success
RequestedWithoutEmail ==
    /\ mail = "failed"
    /\ Answered("unlock", 200) /\ resp.info = "requested"
    /\ Pending(user)
    /\ user.unlockRequestedAt = now

\* C25: of the completeSession requests in flight together for one open
\* session only one counts: in the runs from the user with one open session
\* and no counted session, sessionCount never exceeds the number of
\* completed sessions.
SessionCountedOnce ==
    now = Studying.now =>
        user.sessionCount <= Cardinality({i \in 1..Len(sessions) : sessions[i].isCompleted})

\* C27: no user stays behind an open session: every open session of a
\* locked user that has five minutes left on the clock is completed in the
\* end, and then no session is open and startSession is let through.
StartLetThrough ==
    /\ StartSessionRead(PlannedDuration, DB, now).req.pc = "active"
    /\ StartSessionActive(StartSessionRead(PlannedDuration, DB, now).req, DB, now).req.pc = "insert"

NoUserStuck ==
    \A i \in 1..MaxSessions :
        (/\ i \in OpenSessions
         /\ user.primarySubjectId # NULL
         /\ sessions[i].startedAt + MinSessionMinutes * 2 <= LiveHorizon)
        ~> (/\ i <= Len(sessions)
            /\ sessions[i].isCompleted
            /\ OpenSessions = {}
            /\ StartLetThrough)

\* the second session, started after the first was completed, is completed
SecondSessionCompleted ==
    /\ Answered("complete", 200)
    /\ Len(sessions) = 2
    /\ sessions[1].isCompleted /\ sessions[2].isCompleted
    /\ sessions[2].startedAt >= sessions[1].completedAt
    /\ StartLetThrough

\* C28: no answer of requestUnlock, adminApproveUnlock, adminDenyUnlock or
\* the force unlock changes a session row; a session left open is accepted
\* by completeSession after its five minutes whatever the lock of the user
\* is by then, and counts one; and as long as it is open the check of
\* startSession answers Session already active.
SessionsSurviveUnlock ==
    [][/\ resp'.op \in {"unlock", "approve", "deny", "force"} => sessions' = sessions
       /\ \A i \in OpenSessions :
              ActualMinutes(sessions[i].startedAt, now) >= MinSessionMinutes =>
                  CompleteSessionRead(i, DB, now).req.pc = "session"
       /\ AnsweredNext("complete", 200) =>
              /\ user'.sessionCount = user.sessionCount + 1
              /\ user'.primarySubjectId = user.primarySubjectId
       /\ OpenSessions # {} =>
              StartSessionActive(Req("start", "active", user.primarySubjectId, NULL,
                                     PlannedDuration), DB, now).resp =
                  Resp("start", 400, "Session already active")]_vars

\* the session left open by the administrator's unlock was completed by the
\* unassigned user and is the one session counted since the reset
CompletedWhileUnassigned ==
    /\ Answered("complete", 200)
    /\ Unassigned(user)
    /\ Len(sessions) = 1 /\ sessions[1].isCompleted
    /\ user.sessionCount = 1 /\ user.aarCount = 0
    /\ user.totalStudyMinutes = sessions[1].actualDuration

\* C29: submitAar asks for no lock: what its checks answer does not depend
\* on the lock of the user (API v3.0 and v2.0), a valid submission is let
\* through with the subject of the user, null for an unassigned one; the
\* entry stored carries that subject, and the answer of success comes with
\* aarCount one higher.
WithLock(db) == [db EXCEPT !.user.primarySubjectId = 1, !.user.lockedAt = 0,
                           !.user.lockExpiresAt = LockExpires(0),
                           !.user.onboardingComplete = TRUE]

AarWithoutLock ==
    [][/\ \A in \in AarInputs :
              /\ AarSubmitRead(in, DB, now).resp = AarSubmitRead(in, WithLock(DB), now).resp
              /\ AarSubmitV2Read(in, DB, now).resp = AarSubmitV2Read(in, WithLock(DB), now).resp
              /\ Acceptable(in) =>
                     AarSubmitRead(in, DB, now).req =
                         Req("aar", "insert", user.primarySubjectId, NULL, NULL)
              /\ AarSubmitV2Read(in, DB, now).req.pc = "insert" =>
                     /\ AarSubmitV2Read(in, DB, now).req.subjectId = user.primarySubjectId
                     /\ Unassigned(user) =>
                            AarSubmitV2Insert(AarSubmitV2Read(in, DB, now).req, DB, now).db.aars
                                = Append(aars, NULL)
       /\ Len(aars') > Len(aars) =>
              \E r \in BagToSet(reqs) :
                  /\ r.op = "aar" /\ r.pc = "insert"
                  /\ aars' = Append(aars, r.subjectId)
       /\ AnsweredNext("aar", 200) =>
              /\ user' = [user EXCEPT !.aarCount = @ + 1]
              /\ sessions' = sessions /\ aars' = aars]_vars

\* the review of a user with no subject is stored with none, and counted
AarOfUnassignedCounted ==
    /\ Answered("aar", 200)
    /\ Unassigned(user) /\ user.lockedAt = NULL
    /\ aars = <<NULL>>
    /\ user.aarCount = 1

\* C30: adminApproveUnlock asks for no pending request and no lock: an
\* administrator's approval of the user is let through in every state, its
\* success leaves the user unassigned with sessionCount and aarCount 0, and
\* no answer of an unlock operation changes totalStudyMinutes.
ApproveWithoutRequest ==
    [][/\ ApproveUnlockRead(TRUE, UserId, DB, now).req.pc = "update"
       /\ AnsweredNext("approve", 200) =>
              /\ Unassigned(user') /\ ~user'.unlockRequested
              /\ user'.sessionCount = 0 /\ user'.aarCount = 0
       /\ resp'.op \in {"unlock", "approve", "deny", "force"} =>
              user'.totalStudyMinutes = user.totalStudyMinutes]_vars

\* the review an unassigned user had counted is no longer counted after an
\* approval that no request preceded
ApprovedUnassigned ==
    /\ Answered("approve", 200)
    /\ Unassigned(user) /\ user.unlockRequestedAt = NULL
    /\ aars = <<NULL>>
    /\ user.aarCount = 0
====
